---- MODULE Spec2Model ----
(***************************************************************************)
(* The benchmark driver of faster-rs (benchmark/src/lib.rs):               *)
(* populate_store and run_benchmark.  An orchestrator spawns num_threads   *)
(* workers; every worker binds itself to a core under the topology mutex,  *)
(* opens a store session, claims chunks of the key sequence with a         *)
(* fetch-and-add on a shared cursor and issues one store operation per     *)
(* index.  run_benchmark adds a start barrier, the threads_waiting         *)
(* counter, per-worker counters and the throughput computation.            *)
(***************************************************************************)
EXTENDS Integers, Sequences, FiniteSets, TLC

\* ------------------------------------------------------------------ bounds
MaxThreads == 2
MaxKeys == 3
MaxChunk == 2

\* --------------------------------------------------------- program constants
K_NANOS_PER_SECOND == 1000000000
U8_RANGE == 256

\* The drivers of lib.rs.
Drivers == {"populate_store", "run_benchmark"}
\* The op_allocator functions lib.rs supplies to run_benchmark.
Allocators == {"read_upsert5050", "rmw_100", "upsert_100", "read_100"}
\* Core counts of the host topology.
CoreCounts == {1, 2}
\* The thread counts the runs are made with.
ThreadCounts == 1 .. MaxThreads
\* enum Operation
OpKinds == {"Read", "Upsert", "Rmw"}
\* Elapsed nanoseconds a worker's clock can measure.
Durations == {600000000}
\* Status bytes of a store call this driver can get back.
Statuses == {"OK", "PENDING"}
\* A status byte that is neither: the store failed the operation.
Failures == {"FAILED"}

VARIABLES
    driver,           \* which pub fn runs: populate_store or run_benchmark
    num_threads,      \* the u8 parameter
    N,                \* K_INIT_COUNT / K_TXN_COUNT, the length of keys
    S,                \* K_CHUNK_SIZE
    R,                \* K_REFRESH_INTERVAL
    P,                \* K_COMPLETE_PENDING_INTERVAL
    op_allocator,     \* the F parameter of run_benchmark
    num_cores,        \* cores the topology reports
    store_statuses,   \* the status bytes the store of this run can return
    idx,              \* the shared AtomicUsize cursor
    threads_waiting,  \* the shared AtomicUsize of run_benchmark
    barrierCount,     \* Barrier: arrivals of the current generation
    barrierGen,       \* Barrier: generation id
    topoHolder,       \* Mutex<Topology>: the workers holding the guard
    topoPoisoned,     \* Mutex<Topology>: poisoned by a panic under the guard
    opc,              \* orchestrator position
    spawned,          \* threads pushed so far
    joined,           \* threads joined so far
    total_counts,     \* (reads, upserts, rmws, duration) summed by the joins
    result,           \* ops_per_second_per_thread, or the printed store size
    wpc,              \* worker position
    bound,            \* cores the worker's thread was bound to, in call order
    session,          \* "none" | "open" | "closed"
    clock,            \* "off" | "running" | "stopped"
    chunk_idx,        \* the worker's local chunk_idx while it is live: from the
                      \* fetch_add to the end of the chunk's loop or to the break
    reads, upserts, rmws,
    elapsed,          \* duration.as_nanos() of the worker
    pending,          \* the session has operations still PENDING in the store
    claims,           \* history: the values the fetch_add on idx returned, in order
    fetched,          \* history: indices handed to keys.get
    ops,              \* history: store operations issued per index
    log,              \* history: the worker's steps since it saw exhaustion
    atClose,          \* history: operations were pending when the session closed
    draws,            \* history: op_allocator invocations per index
    calls,            \* history: store calls made, by kind
    refreshed,        \* history: indices at which store.refresh() was called
    drained,          \* history: indices at which complete_pending(false) was called
    cadence,          \* history: the worker's run of calls, see Quiet
    failed            \* history: a store call of the worker returned a failure

cfgVars == <<driver, num_threads, N, S, R, P, op_allocator, num_cores, store_statuses>>
sharedVars == <<idx, threads_waiting, barrierCount, barrierGen, topoHolder, topoPoisoned>>
orchVars == <<opc, spawned, joined, total_counts, result>>
workerVars == <<wpc, bound, session, clock, chunk_idx, reads, upserts, rmws,
                elapsed, pending>>
histVars == <<claims, fetched, ops, log, atClose, draws, calls, refreshed, drained,
              cadence, failed>>
vars == <<cfgVars, sharedVars, orchVars, workerVars, histVars>>

Workers == 0 .. (num_threads - 1)
\* (K_REFRESH_INTERVAL, K_COMPLETE_PENDING_INTERVAL) scaled down with the
\* chunk: as 3200 is a multiple of 1600 and 1600 of 64, the chunk size is a
\* multiple of the second and the second of the first.
Cadences == {<<1, S>>}
\* Every index a chunk can hold: the last chunk may start at N - 1.
Indices == 0 .. (N + S - 1)

\* ------------------------------------------------------------ pure helpers
\* Mutant of CoreFor: the index is used without the modulo.
CoreForNoWrap(thread_idx, cores) == thread_idx

\* cores.get(idx % num_cores)
CoreFor(thread_idx, cores) == thread_idx % cores

\* Mutants of FetchAdd: a stride one short, a stride one long, a cursor that
\* wraps at the key count, and a stride of one index.
FetchAddShort(cur, add) == cur + add - 1
FetchAddLong(cur, add) == cur + add + 1
FetchAddWrap(cur, add) == (cur + add) % N
FetchAddOne(cur, add) == cur + 1

\* AtomicUsize::fetch_add: the new value of the cursor.
FetchAdd(cur, add) == cur + add

\* `chunk_idx < K_INIT_COUNT` negated, `chunk_idx >= K_TXN_COUNT`.
Exhausted(start) == start >= N

\* Mutant of BarrierParticipants: the orchestrator is not counted.
BarrierWorkersOnly == num_threads % U8_RANGE

\* Barrier::new((num_threads + 1) as usize): the addition is made in u8.
BarrierParticipants == (num_threads + 1) % U8_RANGE

\* Barrier::wait: the caller is the last of its generation.
BarrierLast == ~(barrierCount + 1 < BarrierParticipants)

\* Mutant of RefreshDue: the interval is one too long.
RefreshDueLate(k) == k % (R + 1) = 0

\* i % K_REFRESH_INTERVAL == 0, and inside it i % K_COMPLETE_PENDING_INTERVAL == 0
RefreshDue(k) == k % R = 0
CompletePendingDue(k) == RefreshDue(k) /\ k % P = 0

\* Mutant of KeyPresent: the key sequence is longer than N.
KeyAlwaysPresent(k) == TRUE

\* keys.get(k): Some for an index of the key sequence, None past its end.
KeyPresent(k) == k < N

\* The kinds op_allocator can return.
Kinds(f) ==
    CASE f = "read_upsert5050" -> {"Read", "Upsert"}
      [] f = "rmw_100" -> {"Rmw"}
      [] f = "upsert_100" -> {"Upsert"}
      [] f = "read_100" -> {"Read"}

\* complete_pending(wait): whether operations can be left pending after it.
CompletePending(p, wait) == IF wait THEN {FALSE} ELSE {p, FALSE}

\* store.size() with pairwise distinct keys: the indices upserted.
StoreSize == Cardinality({k \in Indices : ops[k] > 0})

\* A worker's calls so far: store operations since its last refresh and since
\* its last complete_pending(false), the longest such runs, its last call, and
\* whether a complete_pending(false) ever came after anything but a refresh.
Quiet == [quietR |-> 0, quietP |-> 0, worstR |-> 0, worstP |-> 0,
          last |-> "none", bare |-> FALSE]

Longer(a, b) == IF a > b THEN a ELSE b

\* store.refresh()
Refreshed(c) == [c EXCEPT !.quietR = 0, !.last = "refresh"]

\* store.complete_pending(false)
Drained(c) == [c EXCEPT !.quietP = 0, !.bare = @ \/ c.last # "refresh",
                        !.last = "complete_pending"]

\* store.read / store.upsert / store.rmw
Operated(c) == [c EXCEPT !.quietR = @ + 1, !.quietP = @ + 1,
                         !.worstR = Longer(@, c.quietR + 1),
                         !.worstP = Longer(@, c.quietP + 1),
                         !.last = "op"]

\* Mutant of Bump: every arm of the match bumps its neighbour's counter too.
BumpAll(kind, counter) == 1

\* reads += 1, upserts += 1, rmws += 1 in the arms of `match op_allocator(rng)`
Bump(kind, counter) == IF kind = counter THEN 1 ELSE 0

\* total_counts.3 as usize / K_NANOS_PER_SECOND
ThreadSeconds(nanos) == nanos \div K_NANOS_PER_SECOND

\* -------------------------------------------------------------------- Init
\* What `Barrier::new((num_threads + 1) as usize)` leaves the orchestrator
\* with: the u8 addition that overflows panics in a build with overflow
\* checks and wraps in one without.
Preamble ==
    IF driver = "run_benchmark" /\ num_threads + 1 >= U8_RANGE
    THEN {"failed", "spawn"}
    ELSE {"spawn"}

\* The state when the driver has made its shared objects and spawned nothing.
Start(threads, statuses) ==
    /\ driver \in Drivers
    /\ num_threads \in threads
    /\ N \in 1 .. MaxKeys
    /\ S \in 1 .. MaxChunk
    /\ \E c \in Cadences : R = c[1] /\ P = c[2]
    /\ op_allocator \in (IF driver = "run_benchmark" THEN Allocators ELSE {"none"})
    /\ num_cores \in CoreCounts
    /\ store_statuses = statuses
    /\ idx = 0
    /\ threads_waiting = (IF driver = "run_benchmark" THEN num_threads ELSE 0)
    /\ barrierCount = 0
    /\ barrierGen = 0
    /\ topoHolder = {}
    /\ topoPoisoned = FALSE
    /\ opc \in Preamble
    /\ spawned = 0
    /\ joined = 0
    /\ total_counts = [reads |-> 0, upserts |-> 0, rmws |-> 0, duration |-> 0]
    /\ result = 0
    /\ wpc = [w \in Workers |-> "idle"]
    /\ bound = [w \in Workers |-> <<>>]
    /\ session = [w \in Workers |-> "none"]
    /\ clock = [w \in Workers |-> "off"]
    /\ chunk_idx = [w \in Workers |-> 0]
    /\ reads = [w \in Workers |-> 0]
    /\ upserts = [w \in Workers |-> 0]
    /\ rmws = [w \in Workers |-> 0]
    /\ elapsed = [w \in Workers |-> 0]
    /\ pending = [w \in Workers |-> FALSE]
    /\ claims = <<>>
    /\ fetched = {}
    /\ ops = [k \in Indices |-> 0]
    /\ log = [w \in Workers |-> <<>>]
    /\ atClose = [w \in Workers |-> FALSE]
    /\ draws = [k \in Indices |-> 0]
    /\ calls = [kind \in OpKinds |-> 0]
    /\ refreshed = {}
    /\ drained = {}
    /\ cadence = [w \in Workers |-> Quiet]
    /\ failed = [w \in Workers |-> FALSE]

\* A store that completes or defers every operation.
Init == Start(ThreadCounts, Statuses)

\* A store that can also fail an operation.
FaultInit == Start(ThreadCounts, Statuses \cup Failures)

\* run_benchmark with every thread count its u8 parameter can carry.
WideInit ==
    /\ Start(1 .. (U8_RANGE - 1), Statuses)
    /\ driver = "run_benchmark"
    /\ N = 1
    /\ S = 1
    /\ op_allocator = "upsert_100"
    /\ num_cores = 1

\* ------------------------------------------------------------ orchestrator
\* threads.push(std::thread::spawn(..)) for thread_idx in 0..num_threads
OrchSpawn ==
    /\ opc = "spawn"
    /\ spawned < num_threads
    /\ wpc' = [wpc EXCEPT ![spawned] = "lock"]
    /\ spawned' = spawned + 1
    /\ opc' = IF spawned + 1 < num_threads THEN "spawn"
              ELSE IF driver = "run_benchmark" THEN "barrier" ELSE "join"
    /\ UNCHANGED <<cfgVars, sharedVars, joined, total_counts, result, bound, session,
                   clock, chunk_idx, reads, upserts, rmws, elapsed, pending, histVars>>

\* barrier.wait() of the orchestrator
OrchBarrier ==
    /\ opc = "barrier"
    /\ IF BarrierLast
       THEN /\ barrierCount' = 0
            /\ barrierGen' = barrierGen + 1
            /\ opc' = "poll"
       ELSE /\ barrierCount' = barrierCount + 1
            /\ barrierGen' = barrierGen
            /\ opc' = "bwait"
    /\ UNCHANGED <<cfgVars, idx, threads_waiting, topoHolder, topoPoisoned, spawned,
                   joined, total_counts, result, workerVars, histVars>>

\* barrier.wait() returns once the generation has changed
OrchBarrierPass ==
    /\ opc = "bwait"
    /\ barrierGen > 0
    /\ opc' = "poll"
    /\ UNCHANGED <<cfgVars, sharedVars, spawned, joined, total_counts, result,
                   workerVars, histVars>>

\* while threads_waiting.load(SeqCst) > 0 { sleep(30 s) }: a load that finds the
\* counter positive leaves the orchestrator where it is
OrchPoll ==
    /\ opc = "poll"
    /\ opc' = IF threads_waiting > 0 THEN "poll" ELSE "join"
    /\ UNCHANGED <<cfgVars, sharedVars, spawned, joined, total_counts, result,
                   workerVars, histVars>>

\* Mutant of Ended: join returns at once.
EndedOrNot(w) == TRUE

\* The thread's closure has returned or unwound.
Ended(w) == wpc[w] \in {"done", "panicked"}

\* t.join().expect(..): blocks until the thread has ended, panics on Err
OrchJoin ==
    /\ opc = "join"
    /\ joined < num_threads
    /\ Ended(joined)
    /\ IF wpc[joined] = "panicked"
       THEN /\ opc' = "failed"
            /\ UNCHANGED <<joined, total_counts>>
       ELSE /\ joined' = joined + 1
            /\ total_counts' =
                 IF driver = "run_benchmark"
                 THEN [reads |-> total_counts.reads + reads[joined],
                       upserts |-> total_counts.upserts + upserts[joined],
                       rmws |-> total_counts.rmws + rmws[joined],
                       duration |-> total_counts.duration + elapsed[joined]]
                 ELSE total_counts
            /\ opc' = IF joined + 1 < num_threads THEN "join"
                      ELSE IF driver = "run_benchmark" THEN "compute" ELSE "size"
    /\ UNCHANGED <<cfgVars, sharedVars, spawned, result, workerVars, histVars>>

\* ops_per_second_per_thread: the integer division panics on a zero divisor
OrchCompute ==
    /\ opc = "compute"
    /\ IF ThreadSeconds(total_counts.duration) = 0
       THEN /\ opc' = "failed"
            /\ result' = result
       ELSE /\ opc' = "done"
            /\ result' = (total_counts.reads + total_counts.upserts + total_counts.rmws)
                            \div ThreadSeconds(total_counts.duration)
    /\ UNCHANGED <<cfgVars, sharedVars, spawned, joined, total_counts, workerVars, histVars>>

\* println!("Store Size: {}", store.size())
OrchSize ==
    /\ opc = "size"
    /\ result' = StoreSize
    /\ opc' = "done"
    /\ UNCHANGED <<cfgVars, sharedVars, spawned, joined, total_counts, workerVars, histVars>>

Orch ==
    \/ OrchSpawn
    \/ OrchBarrier
    \/ OrchBarrierPass
    \/ OrchPoll
    \/ OrchJoin
    \/ OrchCompute
    \/ OrchSize

\* ----------------------------------------------------------------- workers
\* A panic unwinds the worker's closure: the thread ends with Err.
Panicked(w) == wpc' = [wpc EXCEPT ![w] = "panicked"]

\* topo.lock().unwrap(): waits for the guard, panics when the mutex is poisoned
Lock(w) ==
    /\ wpc[w] = "lock"
    /\ topoHolder = {}
    /\ IF topoPoisoned
       THEN /\ Panicked(w)
            /\ UNCHANGED topoHolder
       ELSE /\ wpc' = [wpc EXCEPT ![w] = "bind"]
            /\ topoHolder' = {w}
    /\ UNCHANGED <<cfgVars, idx, threads_waiting, barrierCount, barrierGen, topoPoisoned,
                   orchVars, bound, session, clock, chunk_idx, reads, upserts, rmws,
                   elapsed, pending, histVars>>

\* cpuset_for_core(..) and set_cpubind_for_thread(..).unwrap() under the guard;
\* the guard is dropped at the end of the block, or by the unwinding panic,
\* which poisons the mutex
Bind(w) ==
    /\ wpc[w] = "bind"
    /\ topoHolder = {w}
    /\ topoHolder' = {}
    /\ \E ok \in BOOLEAN :
         IF ok
         THEN /\ bound' = [bound EXCEPT ![w] = Append(@, CoreFor(w, num_cores))]
              /\ wpc' = [wpc EXCEPT ![w] = "session"]
              /\ UNCHANGED topoPoisoned
         ELSE /\ Panicked(w)
              /\ topoPoisoned' = TRUE
              /\ UNCHANGED bound
    /\ UNCHANGED <<cfgVars, idx, threads_waiting, barrierCount, barrierGen, orchVars,
                   session, clock, chunk_idx, reads, upserts, rmws, elapsed, pending,
                   histVars>>

\* let _session = store.start_session()
StartSession(w) ==
    /\ wpc[w] = "session"
    /\ session' = [session EXCEPT ![w] = "open"]
    /\ wpc' = [wpc EXCEPT ![w] = IF driver = "run_benchmark" THEN "barrier" ELSE "claim"]
    /\ UNCHANGED <<cfgVars, sharedVars, orchVars, bound, clock, chunk_idx, reads,
                   upserts, rmws, elapsed, pending, histVars>>

\* barrier.wait() of a worker, and for the last arrival `let start = Instant::now()`
BarrierWait(w) ==
    /\ wpc[w] = "barrier"
    /\ IF BarrierLast
       THEN /\ barrierCount' = 0
            /\ barrierGen' = barrierGen + 1
            /\ wpc' = [wpc EXCEPT ![w] = "claim"]
            /\ clock' = [clock EXCEPT ![w] = "running"]
       ELSE /\ barrierCount' = barrierCount + 1
            /\ barrierGen' = barrierGen
            /\ wpc' = [wpc EXCEPT ![w] = "bwait"]
            /\ UNCHANGED clock
    /\ UNCHANGED <<cfgVars, idx, threads_waiting, topoHolder, topoPoisoned, orchVars,
                   bound, session, chunk_idx, reads, upserts, rmws, elapsed,
                   pending, histVars>>

\* barrier.wait() returns once the generation has changed; let start = Instant::now()
BarrierPass(w) ==
    /\ wpc[w] = "bwait"
    /\ barrierGen > 0
    /\ wpc' = [wpc EXCEPT ![w] = "claim"]
    /\ clock' = [clock EXCEPT ![w] = "running"]
    /\ UNCHANGED <<cfgVars, sharedVars, orchVars, bound, session, chunk_idx,
                   reads, upserts, rmws, elapsed, pending, histVars>>

\* What one worker has done in the chunk it is iterating over.
ChunkStart(w) ==
    [pending |-> pending[w], reads |-> reads[w], upserts |-> upserts[w], rmws |-> rmws[w],
     issued |-> {}, got |-> {}, panicked |-> FALSE,
     drawn |-> {}, calls |-> calls, refreshed |-> refreshed, drained |-> drained,
     cadence |-> cadence[w], failed |-> failed[w]]

\* The head of an iteration at index k: store.refresh() when it is due and,
\* inside that test, store.complete_pending(false) when it is due.
Cooperate(st, k) ==
    LET r == IF RefreshDue(k)
             THEN [st EXCEPT !.refreshed = @ \cup {k}, !.cadence = Refreshed(@)]
             ELSE st
    IN  IF CompletePendingDue(k)
        THEN {[r EXCEPT !.drained = @ \cup {k}, !.cadence = Drained(@), !.pending = left] :
                left \in CompletePending(r.pending, FALSE)}
        ELSE {r}

\* One iteration of `for i in chunk_idx..(chunk_idx + K_CHUNK_SIZE)` at index k:
\* the refresh cadence, op_allocator(rng) in run_benchmark, keys.get(k).unwrap(),
\* the store call of the kind returned (an upsert in populate_store), whose
\* status is dropped, and the counter of the match arm.
Iteration(st, k) ==
    LET run == driver = "run_benchmark"
        kinds == IF run THEN Kinds(op_allocator) ELSE {"Upsert"}
        heads == {[h EXCEPT !.drawn = IF run THEN @ \cup {k} ELSE @, !.got = @ \cup {k}] :
                    h \in Cooperate(st, k)}
    IN  IF ~KeyPresent(k)
        THEN {[h EXCEPT !.panicked = TRUE] : h \in heads}
        ELSE {[c[1] EXCEPT !.pending = (c[3] = "PENDING") \/ @,
                           !.failed = (c[3] \in Failures) \/ @,
                           !.issued = @ \cup {k},
                           !.calls = [@ EXCEPT ![c[2]] = @ + 1],
                           !.cadence = Operated(@),
                           !.reads = IF run THEN @ + Bump(c[2], "Read") ELSE @,
                           !.upserts = IF run THEN @ + Bump(c[2], "Upsert") ELSE @,
                           !.rmws = IF run THEN @ + Bump(c[2], "Rmw") ELSE @] :
                c \in heads \X kinds \X store_statuses}

\* The for loop from index k to the end of the chunk; a panic ends it.
RECURSIVE Iterations(_, _, _)
Iterations(sts, k, end) ==
    IF k >= end THEN sts
    ELSE Iterations(UNION {IF st.panicked THEN {st} ELSE Iteration(st, k) : st \in sts},
                    k + 1, end)

\* idx.fetch_add(K_CHUNK_SIZE, SeqCst), the test of the value it returns, and
\* the iterations over the chunk, which touch nothing the other threads read.
Claim(w) ==
    /\ wpc[w] = "claim"
    /\ idx' = FetchAdd(idx, S)
    /\ claims' = Append(claims, idx)
    /\ IF Exhausted(idx)
       THEN /\ wpc' = [wpc EXCEPT ![w] = IF driver = "run_benchmark" THEN "dec" ELSE "drain"]
            /\ chunk_idx' = [chunk_idx EXCEPT ![w] = idx]
            /\ UNCHANGED <<pending, reads, upserts, rmws, fetched, ops, draws, calls,
                           refreshed, drained, cadence, failed>>
       ELSE \E st \in Iterations({ChunkStart(w)}, idx, idx + S) :
            /\ chunk_idx' = [chunk_idx EXCEPT ![w] = 0]
            /\ wpc' = [wpc EXCEPT ![w] = IF st.panicked THEN "panicked" ELSE "claim"]
            /\ pending' = [pending EXCEPT ![w] = st.pending]
            /\ reads' = [reads EXCEPT ![w] = st.reads]
            /\ upserts' = [upserts EXCEPT ![w] = st.upserts]
            /\ rmws' = [rmws EXCEPT ![w] = st.rmws]
            /\ fetched' = fetched \cup st.got
            /\ ops' = [k \in Indices |-> IF k \in st.issued THEN ops[k] + 1 ELSE ops[k]]
            /\ draws' = [k \in Indices |-> IF k \in st.drawn THEN draws[k] + 1 ELSE draws[k]]
            /\ calls' = st.calls
            /\ refreshed' = st.refreshed
            /\ drained' = st.drained
            /\ cadence' = [cadence EXCEPT ![w] = st.cadence]
            /\ failed' = [failed EXCEPT ![w] = st.failed]
    /\ UNCHANGED <<cfgVars, threads_waiting, barrierCount, barrierGen, topoHolder,
                   topoPoisoned, orchVars, bound, session, clock, elapsed, log, atClose>>

\* Mutant of Decrement: the subtraction is lost.
DecrementLost(w) ==
    /\ wpc[w] = "dec"
    /\ log' = [log EXCEPT ![w] = Append(@, "decrement")]
    /\ wpc' = [wpc EXCEPT ![w] = "drain"]
    /\ UNCHANGED <<cfgVars, sharedVars, orchVars, bound, session, clock, chunk_idx,
                   reads, upserts, rmws, elapsed, pending, claims, fetched, ops, atClose,
                   draws, calls, refreshed, drained, cadence, failed>>

\* threads_waiting.fetch_sub(1, SeqCst); break
Decrement(w) ==
    /\ wpc[w] = "dec"
    /\ threads_waiting' = threads_waiting - 1
    /\ log' = [log EXCEPT ![w] = Append(@, "decrement")]
    /\ wpc' = [wpc EXCEPT ![w] = "drain"]
    /\ UNCHANGED <<cfgVars, idx, barrierCount, barrierGen, topoHolder, topoPoisoned,
                   orchVars, bound, session, clock, chunk_idx, reads, upserts, rmws,
                   elapsed, pending, claims, fetched, ops, atClose, draws, calls,
                   refreshed, drained, cadence, failed>>

\* Mutant of ExitSteps: the session is closed before the blocking drain.
ExitStepsCloseFirst ==
    IF driver = "run_benchmark"
    THEN <<"close", "drain", "stop", "return">>
    ELSE <<"close", "drain">>

\* What the worker does between leaving its loop and the end of its closure,
\* in the order of the code: store.complete_pending(true); store.stop_session();
\* and in run_benchmark the duration and the tuple it returns.
ExitSteps ==
    IF driver = "run_benchmark"
    THEN <<"drain", "close", "stop", "return">>
    ELSE <<"drain", "close">>

\* The effect of one exit step on the worker's (pending, session, clock).
ExitEffect(step, st) ==
    CASE step = "drain" -> {[st EXCEPT !.pending = left] : left \in CompletePending(st.pending, TRUE)}
      [] step = "close" -> {[st EXCEPT !.session = "closed", !.atClose = st.pending]}
      [] step = "stop" -> {[st EXCEPT !.clock = "stopped"]}
      [] step = "return" -> {st}

RECURSIVE RunExit(_, _)
RunExit(steps, sts) ==
    IF steps = <<>> THEN sts
    ELSE RunExit(Tail(steps), UNION {ExitEffect(Head(steps), st) : st \in sts})

\* The rest of the closure after the loop; nothing in it touches the cursor,
\* the counter, the barrier or the mutex, and the thread ends with it.
Finish(w) ==
    /\ wpc[w] = "drain"
    /\ \E st \in RunExit(ExitSteps, {[pending |-> pending[w], session |-> session[w],
                                      clock |-> clock[w], atClose |-> FALSE]}) :
         /\ pending' = [pending EXCEPT ![w] = st.pending]
         /\ session' = [session EXCEPT ![w] = st.session]
         /\ clock' = [clock EXCEPT ![w] = st.clock]
         /\ atClose' = [atClose EXCEPT ![w] = st.atClose]
    /\ \E nanos \in Durations :
         elapsed' = [elapsed EXCEPT ![w] = IF driver = "run_benchmark" THEN nanos ELSE 0]
    /\ log' = [log EXCEPT ![w] = @ \o ExitSteps]
    /\ wpc' = [wpc EXCEPT ![w] = "done"]
    /\ chunk_idx' = [chunk_idx EXCEPT ![w] = 0]
    /\ UNCHANGED <<cfgVars, sharedVars, orchVars, bound, reads, upserts, rmws,
                   claims, fetched, ops, draws, calls, refreshed, drained, cadence, failed>>

Worker(w) ==
    \/ Lock(w)
    \/ Bind(w)
    \/ StartSession(w)
    \/ BarrierWait(w)
    \/ BarrierPass(w)
    \/ Claim(w)
    \/ Decrement(w)
    \/ Finish(w)

Next ==
    \/ OrchSpawn
    \/ OrchBarrier
    \/ OrchBarrierPass
    \/ OrchPoll
    \/ OrchJoin
    \/ OrchCompute
    \/ OrchSize
    \/ \E w \in Workers : Lock(w)
    \/ \E w \in Workers : Bind(w)
    \/ \E w \in Workers : StartSession(w)
    \/ \E w \in Workers : BarrierWait(w)
    \/ \E w \in Workers : BarrierPass(w)
    \/ \E w \in Workers : Claim(w)
    \/ \E w \in Workers : Decrement(w)
    \/ \E w \in Workers : Finish(w)

Spec == Init /\ [][Next]_vars

\* Threads are scheduled by the operating system: a thread that can take a
\* step eventually takes one.
FairSpec == Spec /\ WF_vars(Orch) /\ \A w \in 0 .. (MaxThreads - 1) : WF_vars(w \in Workers /\ Worker(w))

\* The runs against a store that can fail an operation.
FaultSpec == FaultInit /\ [][Next]_vars

\* The orchestrator of run_benchmark from Barrier::new to its barrier.wait(),
\* for every thread count of the u8 parameter, while the threads it has
\* spawned have not been scheduled yet.
WideNext ==
    \/ OrchSpawn
    \/ OrchBarrier

WideSpec == WideInit /\ [][WideNext]_vars

\* ------------------------------------------------------------------ claims
\* Positions of a worker that has opened its session and passed the start.
InLoop == {"claim", "dec", "drain", "done"}

\* The claims that returned a start below N and whose range holds index k.
Holders(k) == {c \in 1 .. Len(claims) : claims[c] < N /\ claims[c] <= k /\ k < claims[c] + S}

\* Some claim has returned a start at or past N.
SomeExhausted == \E c \in 1 .. Len(claims) : claims[c] >= N

\* C1 (partition completeness): the ranges [start, start + S) the fetch_add
\* hands out with start < N never overlap, leave no gap below the cursor, and
\* once a claim has returned start >= N they cover every index of [0, N)
\* exactly once, for every N, S, number of workers and interleaving.
C1_PartitionComplete ==
    \A k \in 0 .. (N - 1) :
        /\ Cardinality(Holders(k)) <= 1
        /\ (k < idx \/ SomeExhausted) => Cardinality(Holders(k)) = 1

C1_Witness ==
    /\ SomeExhausted
    /\ num_threads > 1
    /\ N > S
    /\ N % S # 0
    /\ \A k \in 0 .. (N - 1) : Cardinality(Holders(k)) = 1

\* C2 (boundary clipping): no worker hands keys.get an index at or past N.
C2_NoFetchPastEnd == \A k \in fetched : k < N

\* Every join of run_benchmark has returned Ok.
RunJoined == driver = "run_benchmark" /\ joined = num_threads

\* C3 (counter conservation): when all the joins of run_benchmark have
\* returned, reads + upserts + rmws summed over the workers is exactly N, one
\* operation was issued for every index of [0, N) and none for any other.
C3_CounterConservation ==
    RunJoined =>
        /\ total_counts.reads + total_counts.upserts + total_counts.rmws = N
        /\ \A k \in Indices : ops[k] = (IF k < N THEN 1 ELSE 0)

C3_Witness ==
    /\ RunJoined
    /\ num_threads = 2
    /\ N > S
    /\ total_counts.reads > 0
    /\ total_counts.upserts > 0

\* C4 (population exactness): when populate_store returns, exactly one upsert
\* was issued for every index of [0, N), none for any other, and the store
\* size it printed is N.
C4_PopulationExact ==
    (driver = "populate_store" /\ opc = "done") =>
        /\ \A k \in Indices : ops[k] = (IF k < N THEN 1 ELSE 0)
        /\ result = N

C4_Witness ==
    /\ driver = "populate_store"
    /\ opc = "done"
    /\ num_threads = 2
    /\ N > S

\* A worker of run_benchmark has started its clock, claimed a chunk or
\* issued a store operation.
RunStarted ==
    \/ \E w \in Workers : clock[w] # "off"
    \/ claims # <<>>
    \/ \E k \in Indices : ops[k] > 0

\* C5 (start barrier): in run_benchmark no worker starts its clock, claims a
\* chunk or issues a store operation before every worker has bound its core
\* and opened its session and the orchestrator has reached the barrier.
C5_StartBarrier ==
    (driver = "run_benchmark" /\ RunStarted) =>
        /\ \A v \in Workers : Len(bound[v]) = 1 /\ session[v] # "none"
        /\ opc \notin {"spawn", "barrier"}

C5_Witness ==
    /\ driver = "run_benchmark"
    /\ num_threads = 2
    /\ claims # <<>>
    /\ \E w \in Workers : wpc[w] = "bwait"

\* The exit of a worker of run_benchmark, in the order of the claim.
ExitOrder == <<"decrement", "drain", "close", "stop", "return">>

IsPrefix(s, r) == Len(s) <= Len(r) /\ \A n \in 1 .. Len(s) : s[n] = r[n]

\* C6 (worker exit ordering): a worker of run_benchmark that has seen the
\* cursor exhausted decrements threads_waiting, drains with
\* complete_pending(true), closes its session, stops its clock and returns,
\* each once and in this order; nothing is pending when the session closes,
\* and the worker's counters never change once it has drained.
C6_ExitOrdering ==
    /\ [](driver = "run_benchmark" =>
            \A w \in Workers :
                /\ IsPrefix(log[w], ExitOrder)
                /\ wpc[w] = "done" => log[w] = ExitOrder
                /\ session[w] = "closed" => (~atClose[w] /\ ~pending[w] /\ log[w] = ExitOrder))
    /\ [][driver = "run_benchmark" =>
            \A w \in Workers :
                (Len(log[w]) > 1) =>
                    (reads'[w] = reads[w] /\ upserts'[w] = upserts[w] /\ rmws'[w] = rmws[w]
                     /\ log'[w] = log[w])]_vars

C6_Witness ==
    /\ driver = "run_benchmark"
    /\ \E w \in Workers :
         /\ wpc[w] = "done"
         /\ reads[w] + upserts[w] + rmws[w] > 0
    /\ \E w \in Workers : wpc[w] = "claim" /\ pending[w]

\* Workers of run_benchmark that have not yet got a start >= N from the cursor.
NotExhausted == {w \in Workers : wpc[w] \notin {"dec", "drain", "done"}}

\* Workers of run_benchmark that have not yet executed their fetch_sub.
NotDecremented == {w \in Workers : log[w] = <<>>}

\* C7 as stated: threads_waiting is always the number of workers that have
\* not yet observed exhaustion.
C7_CountsUnexhausted ==
    driver = "run_benchmark" => threads_waiting = Cardinality(NotExhausted)

\* C7 (Active-Worker Count), amended: threads_waiting starts at num_threads,
\* each worker decrements it at most once and only after a claim that
\* returned start >= N; in every state it is the number of workers that have
\* not yet executed their decrement (a worker between its exhausted claim
\* and its fetch_sub still counts), it is never negative, and it is 0 only
\* when every worker has left its loop.
C7_CountsUndecremented ==
    driver = "run_benchmark" =>
        /\ threads_waiting = Cardinality(NotDecremented)
        /\ threads_waiting >= 0
        /\ \A w \in Workers :
             /\ wpc[w] = "dec" => (log[w] = <<>> /\ chunk_idx[w] >= N)
             /\ log[w] # <<>> => wpc[w] \in {"drain", "done"}
        /\ threads_waiting = 0 => \A w \in Workers : wpc[w] \in {"drain", "done"}

C7_Witness ==
    /\ driver = "run_benchmark"
    /\ num_threads = 2
    /\ threads_waiting = 1
    /\ \E w \in Workers : wpc[w] = "dec"
    /\ \E w \in Workers : wpc[w] = "done"

\* C8 (worker-failure propagation): once a worker of run_benchmark has
\* panicked, the orchestrator eventually fails at the join.
C8_FailurePropagates ==
    (driver = "run_benchmark" /\ \E w \in Workers : wpc[w] = "panicked") ~> (opc = "failed")

\* C9 (affinity failure aborts the run): in either driver, once a worker has
\* failed to bind its thread, the orchestrator eventually terminates with a
\* failure.
C9_AffinityFailureAborts == topoPoisoned ~> (opc = "failed")

\* C10 (binding precedes the session): in both drivers a worker that has a
\* session, or is past opening one, has bound its thread exactly once, to
\* core (thread index mod number of cores); a worker that has not bound has
\* no session and has not reached the loop.
C10_BindBeforeSession ==
    \A w \in Workers :
        /\ Len(bound[w]) <= 1
        /\ (session[w] # "none" \/ wpc[w] \in InLoop \cup {"barrier", "bwait"}) =>
              bound[w] = <<w % num_cores>>
        /\ bound[w] = <<>> =>
              (session[w] = "none" /\ wpc[w] \in {"idle", "lock", "bind", "panicked"})

C10_Witness ==
    \E w \in Workers :
        /\ w >= num_cores
        /\ session[w] = "closed"
        /\ \E v \in Workers : wpc[v] = "panicked" /\ bound[v] = <<>>

\* C11 (store failure is fatal): a worker whose upsert, read or rmw returned a
\* status that is neither OK nor PENDING ends as failed: it goes on to no
\* further index and claims no further chunk.
C11_StoreFailureFatal == \A w \in Workers : failed[w] => wpc[w] = "panicked"

\* The operations the joins of run_benchmark have summed.
TotalOps == total_counts.reads + total_counts.upserts + total_counts.rmws

\* C12 (throughput formula): the value run_benchmark returns is the total of
\* operations divided by the total of thread-seconds, the summed elapsed
\* nanoseconds over 1e9; stated without fractions, in tenths of a second:
\* result * tenths = operations * 10.
C12_ThroughputFormula ==
    (driver = "run_benchmark" /\ opc = "done") =>
        result * (total_counts.duration \div (K_NANOS_PER_SECOND \div 10)) = TotalOps * 10

\* C13 (a fully successful run yields a result): when every worker of
\* run_benchmark has returned its counters, the orchestrator does not fail.
C13_SuccessYieldsResult == RunJoined => opc # "failed"

\* C14 (exhaustion monotonicity): the values the fetch_add returns never
\* decrease and the cursor is never below the last of them, so once a claim
\* has returned start >= N every later claim, by any worker, returns
\* start >= N.
C14_ExhaustionMonotone ==
    /\ \A c \in 1 .. Len(claims) : \A e \in 1 .. Len(claims) :
          c < e => (claims[c] <= claims[e] /\ (claims[c] >= N => claims[e] >= N))
    /\ \A c \in 1 .. Len(claims) : claims[c] <= idx

C14_Witness ==
    /\ num_threads = 2
    /\ Len(claims) >= 3
    /\ claims[1] < N
    /\ claims[Len(claims) - 1] >= N
    /\ claims[Len(claims)] >= N

RECURSIVE SumTo(_, _)
SumTo(f, n) == IF n = 0 THEN 0 ELSE f[n - 1] + SumTo(f, n - 1)

\* total_counts as the workers' counters give it for one kind.
Counted(kind) ==
    CASE kind = "Read" -> total_counts.reads
      [] kind = "Upsert" -> total_counts.upserts
      [] kind = "Rmw" -> total_counts.rmws

\* C16 (one classified operation per index): in run_benchmark op_allocator is
\* invoked at most once per index and exactly one store operation is issued
\* for every index of the key sequence it was invoked for; the operations are
\* of a kind the policy returns, and each counter, summed over the workers,
\* is the number of store calls of its kind; a completed run under a fixed
\* policy has N operations of that kind and none of the other two.
C16_OneClassifiedOp ==
    driver = "run_benchmark" =>
        /\ \A k \in Indices :
              /\ draws[k] <= 1
              /\ ops[k] <= draws[k]
              /\ k < N => ops[k] = draws[k]
        /\ calls["Read"] = SumTo(reads, num_threads)
        /\ calls["Upsert"] = SumTo(upserts, num_threads)
        /\ calls["Rmw"] = SumTo(rmws, num_threads)
        /\ \A kind \in OpKinds \ Kinds(op_allocator) : calls[kind] = 0
        /\ (RunJoined /\ op_allocator # "read_upsert5050") =>
              \A kind \in OpKinds :
                  Counted(kind) = (IF kind \in Kinds(op_allocator) THEN N ELSE 0)

C16_Witness ==
    /\ RunJoined
    /\ op_allocator = "rmw_100"
    /\ num_threads = 2
    /\ N > S
    /\ total_counts.rmws = N
    /\ rmws[0] > 0
    /\ rmws[1] > 0

\* The worker has made its blocking drain, closed its session and returned.
Finished(w) ==
    /\ wpc[w] = "done"
    /\ session[w] = "closed"
    /\ \E n \in 1 .. Len(log[w]) : log[w][n] = "drain"

AllBound == \A w \in Workers : Len(bound[w]) = 1

\* C18 (termination): under fair scheduling, once every worker has bound its
\* thread, every worker eventually closes its session and ends, and the
\* orchestrator eventually gets past its wait on threads_waiting and all its
\* joins, for every N, S and number of workers.
C18_Termination ==
    AllBound ~> (joined = num_threads /\ \A w \in Workers : Finished(w))

\* ceil(N / S) * S: the first multiple of the chunk size at or past N.
FirstExhausted == ((N + S - 1) \div S) * S

\* The claims that returned a start at or past N.
ExhaustedClaims == {c \in 1 .. Len(claims) : claims[c] >= N}

\* The workers that have seen the cursor exhausted.
SawExhaustion == {w \in Workers : wpc[w] \in {"dec", "drain", "done"}}

\* C19 (cursor shape): the cursor is always a multiple of S, S times the
\* number of claims made; every exhausted claim is the one exhausted claim of
\* a worker that has left its loop, so the cursor never exceeds
\* ceil(N / S) * S + W * S, and it is that value once all W workers have
\* finished.
C19_CursorShape ==
    /\ idx % S = 0
    /\ idx = S * Len(claims)
    /\ Cardinality(ExhaustedClaims) = Cardinality(SawExhaustion)
    /\ idx <= FirstExhausted + num_threads * S
    /\ (\A w \in Workers : wpc[w] = "done") => idx = FirstExhausted + num_threads * S

C19_Witness ==
    /\ num_threads = 2
    /\ S > 1
    /\ \A w \in Workers : wpc[w] = "done"
    /\ idx = N + 2 * S

\* The worker has called barrier.wait().
Arrived(w) == wpc[w] = "bwait" \/ clock[w] # "off"

\* C20 (barrier size): for every num_threads of the u8 parameter the start
\* barrier of run_benchmark is made for num_threads + 1 participants, the
\* addition neither panics nor wraps, and the barrier has released nobody
\* before all the workers and the orchestrator have arrived.
C20_BarrierSize ==
    driver = "run_benchmark" =>
        /\ spawned = 0 => opc # "failed"
        /\ BarrierParticipants = num_threads + 1
        /\ barrierGen > 0 => \A w \in Workers : Arrived(w)

====
